---- MODULE Spec2Model ----
(***************************************************************************)
(* A model of the bee MultiClient: the health tracker (checkConnect and    *)
(* its four policies, Suspend, Resume, GetHealthyAddresses,                *)
(* GetRandomHealthyAddress, SetAddresses) run by concurrent goroutines.    *)
(*                                                                         *)
(* Granularity.  A goroutine can be preempted wherever it blocks or does   *)
(* I/O: at the acquisition of checkLock and at every probe of the scan.    *)
(* Straight-line code between two such points is one step.  Pool indices   *)
(* are the zero-based indices of the Go code; Addresses[id] of the code is *)
(* Addresses[id + 1] here.                                                 *)
(***************************************************************************)
EXTENDS Integers, Sequences, FiniteSets, TLC

\* Longest endpoint pool considered.
MaxPool == 2

\* The goroutines that use one MultiClient.
Procs == {"g1", "g2"}

\* The endpoint addresses.
Addr == {"a", "b"}

\* The other address.
Other(a) == IF a = "a" THEN "b" ELSE "a"

\* The pool of n endpoints that starts with address first and alternates.
AltPool(first, n) == [k \in 1..n |-> IF k % 2 = 1 THEN first ELSE Other(first)]

\* The pools of at most n endpoints given to NewMultiClient and SetAddresses.
PoolsUpTo(n) == {AltPool(first, k) : first \in Addr, k \in 0..n}

Pools == PoolsUpTo(MaxPool)

\* Longest pool of the sequential specification.
MaxSeqPool == 5

SeqPools == PoolsUpTo(MaxSeqPool)

\* The goroutine of the sequential specification.
SeqProc == "g1"

\* checkLock when no goroutine holds it.
NoProc == "free"

VARIABLES
    Addresses,               \* MultiClient.Addresses
    HealthChecks,            \* MultiClient.HealthChecks
    HealthCheckPath,         \* MultiClient.HealthCheckPath ("" when unset)
    healthyAddresses,        \* MultiClient.healthyAddresses
    checkLock,               \* holder of MultiClient.checkLock, NoProc if free
    active,                  \* MultiClient.active
    up,                      \* environment: the addresses that accept a TCP connection
    pc,                      \* per goroutine: where it is
    op,                      \* per goroutine: the operation it runs
    minSuccessfulAddresses,  \* per goroutine: checkConnect's argument
    rangeAddresses,          \* per goroutine: the slice the scan's range loop iterates
    idx,                     \* per goroutine: the loop variable i of the scan
    successfulChecks,        \* per goroutine: checkConnect's counter
    passed,                  \* per goroutine, history: the indices whose probe passed in this scan
    ret,                     \* per goroutine: what the operation returns
    completed,               \* history: the snapshot as the last completed checkConnect left it
    RetryLimit,              \* MultiClient.RetryLimit
    DefaultBodyType,         \* MultiClient.DefaultBodyType
    PreRequestHooks,         \* MultiClient.PreRequestHooks
    LatePreRequestHooks,     \* MultiClient.LatePreRequestHooks
    ImmediatePreRequestHooks, \* MultiClient.ImmediatePreRequestHooks
    RequestQueryStrings,     \* MultiClient.RequestQueryStrings (its keys)
    RequestHeaders,          \* MultiClient.RequestHeaders (its keys)
    client,                  \* MultiClient.client
    request,                 \* the MultiClientRequest that MultiClient.Request builds
    call,                    \* the locals of the running MultiClient.Request and Perform
    trace                    \* history: what the current attempt has done

clientVars == <<Addresses, HealthChecks, HealthCheckPath, healthyAddresses, checkLock, active>>
scanVars == <<minSuccessfulAddresses, rangeAddresses, idx, successfulChecks, passed>>
procVars == <<pc, op, scanVars, ret>>
optVars == <<RetryLimit, DefaultBodyType, PreRequestHooks, LatePreRequestHooks,
             ImmediatePreRequestHooks, RequestQueryStrings, RequestHeaders, client>>
requestVars == <<optVars, request, call, trace>>
vars == <<clientVars, up, procVars, completed, requestVars>>

NoRet == [t |-> "none", addrs |-> <<>>]
Nil == [t |-> "nil", addrs |-> <<>>]
Err(e) == [t |-> e, addrs |-> <<>>]
AddrRet(a) == [t |-> "addr", addrs |-> <<a>>]
ListRet(l) == [t |-> "list", addrs |-> l]
Panic == [t |-> "panic", addrs |-> <<>>]

CheckOps == {"CheckOne", "CheckN", "CheckQuorum", "CheckAll", "Suspend"}

\* RequestBodyType.
BodyRaw == 0
BodyXml == 1
BodyJson == 2
BodyForm == 3

\* Most attempts a client is configured for.
MaxRetry == 3

NoErr == [e |-> "nil", attempt |-> 0]
NoHttpReq == [made |-> FALSE, query |-> {}, headers |-> {}]
NoResponse == [status |-> 0, type |-> ""]
NoResult == [t |-> "none", e |-> "nil", attempt |-> 0, status |-> 0]
NoRequest ==
    [BodyType |-> BodyRaw, Method |-> "", RequestBody |-> "nil", BaseUrl |-> "",
     QueryString |-> {}, Headers |-> {}, PreRequestHooks |-> <<>>,
     ImmediatePreRequestHooks |-> <<>>, Client |-> "nil"]
NoCall ==
    [pc |-> "idle", i |-> 0, lastErr |-> NoErr, preRequestHooks |-> <<>>, hook |-> 0,
     httpReq |-> NoHttpReq, response |-> NoResponse, result |-> NoResult]
NoTrace == [log |-> <<>>, written |-> {}, selections |-> 0, performs |-> 0]

\* NewMultiClient(addresses...): the pool as given, active, no snapshot, health
\* checks off, no health check path, one attempt, JSON bodies, no hooks.
NewMultiClient(pools) ==
    /\ Addresses \in pools
    /\ HealthChecks = FALSE
    /\ HealthCheckPath = ""
    /\ healthyAddresses = <<>>
    /\ checkLock = NoProc
    /\ active = TRUE
    /\ RetryLimit = 1
    /\ DefaultBodyType = BodyJson
    /\ PreRequestHooks = <<>>
    /\ LatePreRequestHooks = <<>>
    /\ ImmediatePreRequestHooks = <<>>
    /\ RequestQueryStrings = {}
    /\ RequestHeaders = {}
    /\ client = "nil"

ProcInit ==
    /\ pc = [p \in Procs |-> "idle"]
    /\ op = [p \in Procs |-> "none"]
    /\ minSuccessfulAddresses = [p \in Procs |-> 0]
    /\ rangeAddresses = [p \in Procs |-> <<>>]
    /\ idx = [p \in Procs |-> 0]
    /\ successfulChecks = [p \in Procs |-> 0]
    /\ passed = [p \in Procs |-> <<>>]
    /\ ret = [p \in Procs |-> NoRet]
    /\ request = NoRequest
    /\ call = NoCall
    /\ trace = NoTrace

Init == NewMultiClient(Pools) /\ ProcInit /\ up \in SUBSET Addr /\ completed = <<>>

InitSeq == NewMultiClient(SeqPools) /\ ProcInit /\ up \in SUBSET Addr /\ completed = <<>>


----
\* Configuration.

SetAddresses(p, addresses) ==
    /\ pc[p] = "idle"
    /\ Addresses' = addresses
    /\ UNCHANGED <<HealthChecks, HealthCheckPath, healthyAddresses, checkLock, active>>
    /\ UNCHANGED <<up, pc, op, scanVars, ret, completed>>
    /\ UNCHANGED requestVars

\* The exported field HealthChecks is assigned directly.
SetHealthChecks(p, b) ==
    /\ pc[p] = "idle"
    /\ HealthChecks' = b
    /\ UNCHANGED <<Addresses, HealthCheckPath, healthyAddresses, checkLock, active>>
    /\ UNCHANGED <<up, pc, op, scanVars, ret, completed>>
    /\ UNCHANGED requestVars

SetHealthCheckPath(p, path) ==
    /\ pc[p] = "idle"
    /\ HealthCheckPath' = path
    /\ UNCHANGED <<Addresses, HealthChecks, healthyAddresses, checkLock, active>>
    /\ UNCHANGED <<up, pc, op, scanVars, ret, completed>>
    /\ UNCHANGED requestVars

Resume(p) ==
    /\ pc[p] = "idle"
    /\ active' = TRUE
    /\ UNCHANGED <<Addresses, HealthChecks, HealthCheckPath, healthyAddresses, checkLock>>
    /\ UNCHANGED <<up, pc, op, scanVars, ret, completed>>
    /\ UNCHANGED requestVars

IsActive == active

\* An endpoint comes up or goes down.
EnvChange(a) ==
    /\ up' = IF a \in up THEN up \ {a} ELSE up \cup {a}
    /\ UNCHANGED <<clientVars, procVars, completed>>
    /\ UNCHANGED requestVars

----
\* Health checks.

\* The call of checkConnect(n): the argument is evaluated, then the goroutine
\* waits for checkLock.
Call(p, name, n) ==
    /\ pc[p] = "idle"
    /\ pc' = [pc EXCEPT ![p] = "lock"]
    /\ op' = [op EXCEPT ![p] = name]
    /\ minSuccessfulAddresses' = [minSuccessfulAddresses EXCEPT ![p] = n]
    /\ ret' = [ret EXCEPT ![p] = NoRet]
    /\ UNCHANGED <<rangeAddresses, idx, successfulChecks, passed, up, completed>>
    /\ UNCHANGED requestVars

CheckOne(p) == Call(p, "CheckOne", 1) /\ UNCHANGED clientVars

CheckN(p, n) == Call(p, "CheckN", n) /\ UNCHANGED clientVars

\* Half of the pool, rounded up: not a strict majority of an even pool.
QuorumHalf(k) == (k + 1) \div 2

Quorum(k) == (k \div 2) + 1

CheckQuorum(p) == Call(p, "CheckQuorum", Quorum(Len(Addresses))) /\ UNCHANGED clientVars

CheckAll(p) == Call(p, "CheckAll", Len(Addresses)) /\ UNCHANGED clientVars

Suspend(p) ==
    /\ active' = FALSE
    /\ Call(p, "Suspend", Len(Addresses))
    /\ UNCHANGED <<Addresses, HealthChecks, HealthCheckPath, healthyAddresses, checkLock>>

\* A lock that does not wait for its holder.
LockNoWait(p) == checkLock' = p

\* checkLock.Lock(): the goroutine goes on once the mutex is free and holds it.
Lock(p) ==
    /\ checkLock = NoProc
    /\ checkLock' = p

\* checkLock.Unlock().
Unlock(p) == checkLock' = NoProc

\* IsHealthy(address).  Without a health check path: a TCP connection to the
\* address.  With one: the probe request is built by NewClientRequest and
\* performed without SetBaseUrl, so it goes to the empty base URL, which no
\* transport can reach, whatever the address is.
IsHealthy(address) ==
    IF HealthCheckPath = "" THEN address \in up ELSE FALSE

\* A verdict that accepts one pass fewer than asked for.
VerdictOffByOne(successful, min) ==
    IF successful < min - 1 THEN Err("ErrNotEnough") ELSE Nil

\* checkConnect's verdict once the loop has ended.
Verdict(successful, min) ==
    IF successful < min THEN Err("ErrNotEnough") ELSE Nil

\* checkLock.Lock() and what follows up to the first probe.
checkConnectEnter(p) ==
    /\ pc[p] = "lock"
    /\ op[p] \in CheckOps
    /\ Lock(p)
    /\ healthyAddresses' = <<>>
    /\ IF IsActive
         THEN /\ rangeAddresses' = [rangeAddresses EXCEPT ![p] = Addresses]
              /\ idx' = [idx EXCEPT ![p] = 0]
              /\ successfulChecks' = [successfulChecks EXCEPT ![p] = 0]
              /\ passed' = [passed EXCEPT ![p] = <<>>]
              /\ IF Len(Addresses) = 0
                   THEN /\ pc' = [pc EXCEPT ![p] = "unlock"]
                        /\ ret' = [ret EXCEPT ![p] = Verdict(0, minSuccessfulAddresses[p])]
                   ELSE /\ pc' = [pc EXCEPT ![p] = "scan"]
                        /\ UNCHANGED ret
         ELSE /\ pc' = [pc EXCEPT ![p] = "unlock"]
              /\ ret' = [ret EXCEPT ![p] = Err("ErrNotActive")]
              /\ UNCHANGED <<rangeAddresses, idx, successfulChecks, passed>>
    /\ UNCHANGED <<Addresses, HealthChecks, HealthCheckPath, active>>
    /\ UNCHANGED <<up, op, minSuccessfulAddresses, completed>>
    /\ UNCHANGED requestVars

\* One iteration of the range loop: the probe of rangeAddresses[i].
checkConnectProbe(p) ==
    /\ pc[p] = "scan"
    /\ LET i == idx[p]
           ok == IsHealthy(rangeAddresses[p][i + 1])
           successful == IF ok THEN successfulChecks[p] + 1 ELSE successfulChecks[p]
           last == successful >= minSuccessfulAddresses[p] \/ i + 1 = Len(rangeAddresses[p])
       IN  /\ successfulChecks' = [successfulChecks EXCEPT ![p] = successful]
           /\ healthyAddresses' = IF ok THEN Append(healthyAddresses, i) ELSE healthyAddresses
           /\ passed' = [passed EXCEPT ![p] = IF ok THEN Append(@, i) ELSE @]
           /\ IF last
                THEN /\ pc' = [pc EXCEPT ![p] = "unlock"]
                     /\ ret' = [ret EXCEPT ![p] = Verdict(successful, minSuccessfulAddresses[p])]
                     /\ UNCHANGED idx
                ELSE /\ idx' = [idx EXCEPT ![p] = i + 1]
                     /\ UNCHANGED <<pc, ret>>
    /\ UNCHANGED <<Addresses, HealthChecks, HealthCheckPath, checkLock, active>>
    /\ UNCHANGED <<up, op, minSuccessfulAddresses, rangeAddresses, completed>>
    /\ UNCHANGED requestVars

\* The deferred checkLock.Unlock() of checkConnect, and the return.
checkConnectReturn(p) ==
    /\ pc[p] = "unlock"
    /\ op[p] \in CheckOps
    /\ Unlock(p)
    /\ completed' = healthyAddresses
    /\ pc' = [pc EXCEPT ![p] = "idle"]
    /\ op' = [op EXCEPT ![p] = "none"]
    /\ ret' = [ret EXCEPT ![p] = NoRet]
    /\ minSuccessfulAddresses' = [minSuccessfulAddresses EXCEPT ![p] = 0]
    /\ rangeAddresses' = [rangeAddresses EXCEPT ![p] = <<>>]
    /\ idx' = [idx EXCEPT ![p] = 0]
    /\ successfulChecks' = [successfulChecks EXCEPT ![p] = 0]
    /\ passed' = [passed EXCEPT ![p] = <<>>]
    /\ UNCHANGED <<Addresses, HealthChecks, HealthCheckPath, healthyAddresses, active, up>>
    /\ UNCHANGED requestVars

----
\* Reading the snapshot.

\* The loop of GetHealthyAddresses: addresses[i] = Addresses[id] for every id of
\* the snapshot; an id outside the pool is an index out of range.
ResolveSnapshot(snapshot, pool) ==
    IF \E k \in 1..Len(snapshot) : snapshot[k] >= Len(pool)
      THEN Panic
      ELSE ListRet([k \in 1..Len(snapshot) |-> pool[snapshot[k] + 1]])

\* The call of GetHealthyAddresses: the goroutine waits for checkLock.
GetHealthyAddresses(p) ==
    /\ pc[p] = "idle"
    /\ pc' = [pc EXCEPT ![p] = "lock"]
    /\ op' = [op EXCEPT ![p] = "GetHealthyAddresses"]
    /\ UNCHANGED <<clientVars, up, scanVars, ret, completed>>
    /\ UNCHANGED requestVars

\* checkLock.Lock() and the body of GetHealthyAddresses.
GetHealthyAddressesEnter(p) ==
    /\ pc[p] = "lock"
    /\ op[p] = "GetHealthyAddresses"
    /\ Lock(p)
    /\ ret' = [ret EXCEPT ![p] = ResolveSnapshot(healthyAddresses, Addresses)]
    /\ pc' = [pc EXCEPT ![p] = "unlock"]
    /\ UNCHANGED <<Addresses, HealthChecks, HealthCheckPath, healthyAddresses, active>>
    /\ UNCHANGED <<up, op, scanVars, completed>>
    /\ UNCHANGED requestVars

\* The deferred checkLock.Unlock() of GetHealthyAddresses, and the return.
GetHealthyAddressesReturn(p) ==
    /\ pc[p] = "unlock"
    /\ op[p] = "GetHealthyAddresses"
    /\ Unlock(p)
    /\ pc' = [pc EXCEPT ![p] = "idle"]
    /\ op' = [op EXCEPT ![p] = "none"]
    /\ ret' = [ret EXCEPT ![p] = NoRet]
    /\ UNCHANGED <<Addresses, HealthChecks, HealthCheckPath, healthyAddresses, active>>
    /\ UNCHANGED <<up, scanVars, completed>>
    /\ UNCHANGED requestVars

\* A selection that ignores the snapshot.
RandomAddressOfPool ==
    IF Len(Addresses) = 0
      THEN {Err("ErrNoAddresses")}
      ELSE {AddrRet(Addresses[r]) : r \in 1..Len(Addresses)}

\* A selection that always goes by the snapshot.
RandomAddressOfSnapshot ==
    IF Len(healthyAddresses) = 0
      THEN {Err("ErrNoHealthy")}
      ELSE {IF healthyAddresses[r] < Len(Addresses)
              THEN AddrRet(Addresses[healthyAddresses[r] + 1])
              ELSE Err("ErrNoHealthy") : r \in 1..Len(healthyAddresses)}

\* What GetRandomHealthyAddress can return, one value per outcome of rand.Intn.
RandomHealthyAddress ==
    IF HealthChecks
      THEN IF Len(healthyAddresses) = 0
             THEN {Err("ErrNoHealthy")}
             ELSE {IF healthyAddresses[r] < Len(Addresses)
                     THEN AddrRet(Addresses[healthyAddresses[r] + 1])
                     ELSE Err("ErrNoHealthy") : r \in 1..Len(healthyAddresses)}
      ELSE IF Len(Addresses) = 0
             THEN {Err("ErrNoAddresses")}
             ELSE {AddrRet(Addresses[r]) : r \in 1..Len(Addresses)}

\* GetRandomHealthyAddress takes no lock and does no I/O.
GetRandomHealthyAddress(p) ==
    /\ pc[p] = "idle"
    /\ \E r \in RandomHealthyAddress : ret' = [ret EXCEPT ![p] = r]
    /\ pc' = [pc EXCEPT ![p] = "done"]
    /\ op' = [op EXCEPT ![p] = "GetRandomHealthyAddress"]
    /\ UNCHANGED <<clientVars, up, scanVars, completed>>
    /\ UNCHANGED requestVars

\* The caller has taken the result.
Done(p) ==
    /\ pc[p] = "done"
    /\ pc' = [pc EXCEPT ![p] = "idle"]
    /\ op' = [op EXCEPT ![p] = "none"]
    /\ ret' = [ret EXCEPT ![p] = NoRet]
    /\ UNCHANGED <<clientVars, up, scanVars, completed>>
    /\ UNCHANGED requestVars

----
\* Construction.

\* A constructor that takes the addresses in the reverse order and allows no attempt.
ReversedClient(addresses) ==
    [Addresses |-> [k \in 1..Len(addresses) |-> addresses[Len(addresses) + 1 - k]],
     HealthChecks |-> FALSE, HealthCheckPath |-> "", healthyAddresses |-> <<>>,
     active |-> TRUE, RetryLimit |-> 0, DefaultBodyType |-> BodyJson,
     PreRequestHooks |-> <<>>, LatePreRequestHooks |-> <<>>,
     ImmediatePreRequestHooks |-> <<>>, RequestQueryStrings |-> {},
     RequestHeaders |-> {}, client |-> "nil"]

\* The struct NewMultiClient(addresses...) returns; the fields its literal does
\* not name have their zero values.
NewClient(addresses) ==
    [Addresses |-> addresses,
     HealthChecks |-> FALSE, HealthCheckPath |-> "", healthyAddresses |-> <<>>,
     active |-> TRUE, RetryLimit |-> 1, DefaultBodyType |-> BodyJson,
     PreRequestHooks |-> <<>>, LatePreRequestHooks |-> <<>>,
     ImmediatePreRequestHooks |-> <<>>, RequestQueryStrings |-> {},
     RequestHeaders |-> {}, client |-> "nil"]

\* The goroutine replaces its client by a new one, made by NewMultiClient.
New(p, addresses) ==
    /\ \A q \in Procs : pc[q] = "idle"
    /\ LET c == NewClient(addresses)
       IN  /\ Addresses' = c.Addresses
           /\ HealthChecks' = c.HealthChecks
           /\ HealthCheckPath' = c.HealthCheckPath
           /\ healthyAddresses' = c.healthyAddresses
           /\ active' = c.active
           /\ RetryLimit' = c.RetryLimit
           /\ DefaultBodyType' = c.DefaultBodyType
           /\ PreRequestHooks' = c.PreRequestHooks
           /\ LatePreRequestHooks' = c.LatePreRequestHooks
           /\ ImmediatePreRequestHooks' = c.ImmediatePreRequestHooks
           /\ RequestQueryStrings' = c.RequestQueryStrings
           /\ RequestHeaders' = c.RequestHeaders
           /\ client' = c.client
    /\ checkLock' = NoProc
    /\ completed' = <<>>
    /\ pc' = [pc EXCEPT ![p] = "done"]
    /\ op' = [op EXCEPT ![p] = "NewMultiClient"]
    /\ UNCHANGED <<up, scanVars, ret, request, call, trace>>

----
\* Requests.

\* The goroutine that calls MultiClient.Request, and the other one.
RequestProc == "g1"
OtherProc == "g2"

\* strings.ToUpper on the methods callers give.
ToUpper(method) ==
    CASE method = "get" -> "GET"
      [] method = "brew" -> "BREW"
      [] OTHER -> method

\* The methods Perform's switch knows.
SupportedMethods == {"GET", "POST", "PUT", "DELETE", "HEAD", "PATCH"}

\* The payloads callers give: none, a string, a struct.
Payloads == {"nil", "text", "struct"}

\* The responses a server gives.
StatusCodes == {200, 399, 400, 500}
ContentTypes == {"application/json", "text/xml", "text/plain"}

NewClientRequest(method, payload, payloadType) ==
    [BodyType |-> payloadType, Method |-> ToUpper(method), RequestBody |-> payload,
     BaseUrl |-> "", QueryString |-> {}, Headers |-> {}, PreRequestHooks |-> <<>>,
     ImmediatePreRequestHooks |-> <<>>, Client |-> "nil"]

\* Perform's encoding of the body.  A payload that is neither a reader, a string
\* nor a byte slice leaves the reader nil, and ioutil.ReadAll of it, on the XML
\* path, is a nil dereference.
EncodeBody(r) ==
    IF r.RequestBody # "nil" /\ r.BodyType = BodyXml /\ r.RequestBody = "struct"
      THEN "panic"
      ELSE "ok"

\* A sink choice that counts status 400 as a success.
SinkForOffByOne(status) == IF status <= 400 THEN "success" ELSE "failure"

\* The sink Perform hands to the ResponseProcessor.
SinkFor(status) == IF status < 400 THEN "success" ELSE "failure"

\* DefaultResponseProcessor's choice of a decoder.
DecoderFor(type) ==
    IF type \in {"application/json", "text/json"} THEN "json" ELSE "xml"

Event(kind, what) == <<kind, what>>

Logged(t, kind, what) == [t EXCEPT !.log = Append(@, Event(kind, what))]

\* Perform returns err to MultiClient.Request: the error is kept and the loop goes on.
PerformFailed(c, e) ==
    [c EXCEPT !.lastErr = [e |-> e, attempt |-> c.i + 1], !.i = c.i + 1, !.pc = "attempt"]

\* MultiClient.Request returns the error e of attempt k.
Returned(c, e, k) ==
    [c EXCEPT !.result = [t |-> "error", e |-> e, attempt |-> k, status |-> 0], !.pc = "done"]

\* What follows the last pre-request hook.
AfterHooks(c) == [c EXCEPT !.pc = "materialize", !.hook = 0]

\* A retry loop that makes one attempt more.
LoopEndsOffByOne(i) == i > RetryLimit

\* The retry loop's condition, negated.
LoopEnds(i) == i >= RetryLimit

\* A selection error that is kept like an execution error, the loop going on.
SelectionRetried(c, e) == PerformFailed(c, e)

\* GetRandomHealthyAddress returns err: MultiClient.Request returns it.
SelectionFailed(c, e) == Returned(c, e, c.i + 1)

\* The call of MultiClient.Request: NewClientRequest and request.Client.
Request(p, method, payload, hooks) ==
    /\ pc[p] = "idle"
    /\ pc' = [pc EXCEPT ![p] = "request"]
    /\ op' = [op EXCEPT ![p] = "Request"]
    /\ request' = [NewClientRequest(method, payload, DefaultBodyType) EXCEPT !.Client = client]
    /\ call' = [NoCall EXCEPT !.pc = "attempt", !.preRequestHooks = hooks]
    /\ trace' = NoTrace
    /\ UNCHANGED <<clientVars, up, scanVars, ret, completed, optVars>>

\* The head of the retry loop and one attempt up to its first hook: the
\* selection, the descriptor, and Perform's method switch and body.
RequestAttempt(p) ==
    /\ pc[p] = "request"
    /\ call.pc = "attempt"
    /\ IF LoopEnds(call.i)
         THEN /\ call' = IF call.lastErr # NoErr
                           THEN Returned(call, call.lastErr.e, call.lastErr.attempt)
                           ELSE Returned(call, "ErrRetryLimit", 0)
              /\ UNCHANGED <<request, trace>>
         ELSE \E r \in RandomHealthyAddress :
                LET attempt == [NoTrace EXCEPT !.selections = trace.selections + 1,
                                               !.performs = trace.performs]
                IN  IF r.t # "addr"
                      THEN /\ call' = SelectionFailed(call, r.t)
                           /\ trace' = attempt
                           /\ UNCHANGED request
                      ELSE LET hooks == (PreRequestHooks \o call.preRequestHooks)
                                            \o LatePreRequestHooks
                               req == [request EXCEPT
                                         !.BaseUrl = r.addrs[1],
                                         !.QueryString = @ \cup RequestQueryStrings,
                                         !.Headers = @ \cup RequestHeaders,
                                         !.PreRequestHooks = hooks,
                                         !.ImmediatePreRequestHooks = ImmediatePreRequestHooks]
                               c == [call EXCEPT !.preRequestHooks = hooks,
                                                 !.httpReq = NoHttpReq,
                                                 !.response = NoResponse]
                               t == [attempt EXCEPT !.performs = trace.performs + 1]
                           IN  /\ request' = req
                               /\ IF req.Method \notin SupportedMethods
                                    THEN /\ call' = PerformFailed(c, "ErrMethod")
                                         /\ trace' = t
                                    ELSE IF EncodeBody(req) = "panic"
                                    THEN /\ call' = [c EXCEPT !.result.t = "panic", !.pc = "done"]
                                         /\ trace' = t
                                    ELSE /\ call' = IF Len(hooks) = 0
                                                      THEN AfterHooks(c)
                                                      ELSE [c EXCEPT !.pc = "hooks", !.hook = 1]
                                         /\ trace' = t
    /\ UNCHANGED <<clientVars, up, procVars, completed, optVars>>

\* One pre-request hook of Perform's loop; the hook returns nil or an error.
PerformPreRequestHook(p) ==
    /\ pc[p] = "request"
    /\ call.pc = "hooks"
    /\ \E ok \in BOOLEAN :
         LET t == Logged(trace, "hook", request.PreRequestHooks[call.hook])
         IN  IF ok
               THEN /\ call' = IF call.hook = Len(request.PreRequestHooks)
                                 THEN AfterHooks(call)
                                 ELSE [call EXCEPT !.hook = @ + 1]
                    /\ trace' = t
               ELSE /\ call' = PerformFailed(call, "ErrHook")
                    /\ trace' = Logged(t, "error", "ErrHook")
    /\ UNCHANGED <<clientVars, up, procVars, completed, optVars, request>>

\* request.Request(), then the query string and the headers, up to the first
\* immediate hook.
PerformMaterialize(p) ==
    /\ pc[p] = "request"
    /\ call.pc = "materialize"
    /\ \E ok \in BOOLEAN :
         IF ok
           THEN LET t1 == Logged(trace, "request", "")
                    t2 == IF request.QueryString # {} THEN Logged(t1, "query", "") ELSE t1
                    t3 == Logged(t2, "headers", "")
                    httpReq == [made |-> TRUE, query |-> request.QueryString,
                                headers |-> request.Headers]
                IN  /\ call' = IF Len(request.ImmediatePreRequestHooks) = 0
                                 THEN [call EXCEPT !.httpReq = httpReq, !.pc = "send"]
                                 ELSE [call EXCEPT !.httpReq = httpReq, !.pc = "immediate",
                                                   !.hook = 1]
                    /\ trace' = t3
           ELSE /\ call' = PerformFailed(call, "ErrRequest")
                /\ trace' = Logged(trace, "error", "ErrRequest")
    /\ UNCHANGED <<clientVars, up, procVars, completed, optVars, request>>

\* One immediate pre-request hook; the hook returns nil or an error.
PerformImmediateHook(p) ==
    /\ pc[p] = "request"
    /\ call.pc = "immediate"
    /\ \E ok \in BOOLEAN :
         LET t == Logged(trace, "immediate", request.ImmediatePreRequestHooks[call.hook])
         IN  IF ok
               THEN /\ call' = IF call.hook = Len(request.ImmediatePreRequestHooks)
                                 THEN [call EXCEPT !.pc = "send", !.hook = 0]
                                 ELSE [call EXCEPT !.hook = @ + 1]
                    /\ trace' = t
               ELSE /\ call' = PerformFailed(call, "ErrHook")
                    /\ trace' = Logged(t, "error", "ErrHook")
    /\ UNCHANGED <<clientVars, up, procVars, completed, optVars, request>>

\* http.DefaultClient.Do(httpReq): a transport error or a response.
PerformDo(p) ==
    /\ pc[p] = "request"
    /\ call.pc = "send"
    /\ \/ /\ call' = PerformFailed(call, "ErrTransport")
          /\ trace' = Logged(Logged(trace, "send", "DefaultClient"), "error", "ErrTransport")
       \/ \E status \in StatusCodes, type \in ContentTypes :
            /\ call' = [call EXCEPT !.response = [status |-> status, type |-> type],
                                    !.pc = "decode"]
            /\ trace' = Logged(trace, "send", "DefaultClient")
    /\ UNCHANGED <<clientVars, up, procVars, completed, optVars, request>>

\* A loop that also retries the responses of status 400 and above.
AttemptSucceededBelow400(decoded, status) == decoded /\ status < 400

\* MultiClient.Request's test of what Perform returns: err == nil, err being
\* the decoder's error once there is a response.
AttemptSucceeded(decoded, status) == decoded

\* The ResponseProcessor on the sink the status selects; Perform returns the
\* response and the decoder's error, and MultiClient.Request returns the response
\* if there is no error and goes on with the loop otherwise.
PerformDecode(p) ==
    /\ pc[p] = "request"
    /\ call.pc = "decode"
    /\ \E ok \in BOOLEAN :
         LET sink == SinkFor(call.response.status)
             decoded == [Logged(trace, "decode", DecoderFor(call.response.type))
                           EXCEPT !.written = @ \cup {sink}]
             t == IF ok THEN decoded ELSE Logged(decoded, "error", "ErrDecode")
         IN  IF AttemptSucceeded(ok, call.response.status)
               THEN /\ call' = [call EXCEPT
                                  !.result = [t |-> "response", e |-> "nil",
                                              attempt |-> call.i + 1,
                                              status |-> call.response.status],
                                  !.pc = "done"]
                    /\ trace' = t
               ELSE /\ call' = PerformFailed(call, "ErrDecode")
                    /\ trace' = t
    /\ UNCHANGED <<clientVars, up, procVars, completed, optVars, request>>

\* The caller has taken the result of MultiClient.Request.
RequestReturn(p) ==
    /\ pc[p] = "request"
    /\ call.pc = "done"
    /\ pc' = [pc EXCEPT ![p] = "idle"]
    /\ op' = [op EXCEPT ![p] = "none"]
    /\ request' = NoRequest
    /\ call' = NoCall
    /\ trace' = NoTrace
    /\ UNCHANGED <<clientVars, up, scanVars, ret, completed, optVars>>

\* The snapshots a completed check call leaves on a pool of at most n endpoints.
Snapshots(n) ==
    {s \in UNION {[1..k -> 0..(n - 1)] : k \in 0..n} :
        \A j \in 1..(Len(s) - 1) : s[j] < s[j + 1]}

\* The client between two calls, configured: any pool, the snapshot of a check
\* call made on a pool at least as long, one hook of each kind, one default
\* query parameter and one default header.
Configured ==
    /\ Addresses \in Pools
    /\ HealthChecks \in BOOLEAN
    /\ HealthCheckPath = ""
    /\ healthyAddresses \in (IF HealthChecks THEN Snapshots(MaxPool) ELSE {<<>>})
    /\ completed = healthyAddresses
    /\ checkLock = NoProc
    /\ active = TRUE
    /\ up = Addr
    /\ PreRequestHooks = <<"E">>
    /\ LatePreRequestHooks = <<"L">>
    /\ ImmediatePreRequestHooks = <<"I">>

InitRequest ==
    /\ Configured
    /\ RetryLimit \in 0..MaxRetry
    /\ DefaultBodyType = BodyJson
    /\ RequestQueryStrings = {"q"}
    /\ RequestHeaders = {"h"}
    /\ client = "nil"
    /\ ProcInit

\* One goroutine calls MultiClient.Request while another replaces the pool.
NextRequest ==
    \/ \E method \in {"get", "brew"}, hooks \in {<<>>, <<"P">>} :
         Request(RequestProc, method, "struct", hooks)
    \/ RequestAttempt(RequestProc)
    \/ PerformPreRequestHook(RequestProc)
    \/ PerformMaterialize(RequestProc)
    \/ PerformImmediateHook(RequestProc)
    \/ PerformDo(RequestProc)
    \/ PerformDecode(RequestProc)
    \/ RequestReturn(RequestProc)
    \/ \E addresses \in Pools : SetAddresses(OtherProc, addresses)

SpecRequest == InitRequest /\ [][NextRequest]_vars

\* A client of one endpoint that makes one attempt, with any default body type,
\* with and without hooks, default query parameters and a client of its own.
InitPerform ==
    /\ Addresses = <<"a">>
    /\ HealthChecks = FALSE
    /\ HealthCheckPath = ""
    /\ healthyAddresses = <<>>
    /\ completed = <<>>
    /\ checkLock = NoProc
    /\ active = TRUE
    /\ up = Addr
    /\ RetryLimit = 1
    /\ DefaultBodyType \in {BodyRaw, BodyXml, BodyJson, BodyForm}
    /\ PreRequestHooks \in {<<>>, <<"E">>}
    /\ LatePreRequestHooks = <<>>
    /\ ImmediatePreRequestHooks \in {<<>>, <<"I">>}
    /\ RequestQueryStrings \in {{}, {"q"}}
    /\ RequestHeaders = {}
    /\ client \in {"nil", "custom"}
    /\ ProcInit

\* One goroutine calls MultiClient.Request with any payload.
NextPerform ==
    \/ \E method \in {"get", "brew"}, payload \in Payloads :
         Request(RequestProc, method, payload, <<>>)
    \/ RequestAttempt(RequestProc)
    \/ PerformPreRequestHook(RequestProc)
    \/ PerformMaterialize(RequestProc)
    \/ PerformImmediateHook(RequestProc)
    \/ PerformDo(RequestProc)
    \/ PerformDecode(RequestProc)
    \/ RequestReturn(RequestProc)

SpecPerform == InitPerform /\ [][NextPerform]_vars

----
\* One goroutine runs check calls on a client with health checking enabled or
\* not, while the other selects addresses.
NextSelect ==
    \/ \E b \in BOOLEAN : SetHealthChecks(OtherProc, b)
    \/ \E a \in Addr : EnvChange(a)
    \/ \E n \in 0..(MaxPool + 1) : CheckN(RequestProc, n)
    \/ checkConnectEnter(RequestProc)
    \/ checkConnectProbe(RequestProc)
    \/ checkConnectReturn(RequestProc)
    \/ GetRandomHealthyAddress(OtherProc)
    \/ Done(OtherProc)

SpecSelect == Init /\ [][NextSelect]_vars

----
\* The goroutines of one client, running concurrently.  CheckOne, CheckQuorum
\* and CheckAll call checkConnect(n) with an n they compute before the lock is
\* taken: CheckN, with every n, stands for them here.
Next ==
    \/ \E p \in Procs, addresses \in Pools : SetAddresses(p, addresses)
    \/ \E p \in Procs : Resume(p)
    \/ \E a \in Addr : EnvChange(a)
    \/ \E p \in Procs, n \in 0..(MaxPool + 1) : CheckN(p, n)
    \/ \E p \in Procs : Suspend(p)
    \/ \E p \in Procs : checkConnectEnter(p)
    \/ \E p \in Procs : checkConnectProbe(p)
    \/ \E p \in Procs : checkConnectReturn(p)
    \/ \E p \in Procs : GetHealthyAddresses(p)
    \/ \E p \in Procs : GetHealthyAddressesEnter(p)
    \/ \E p \in Procs : GetHealthyAddressesReturn(p)

Spec == Init /\ [][Next]_vars

\* One goroutine using the client, on pools of up to MaxSeqPool endpoints.
NextSeq ==
    \/ \E addresses \in SeqPools : New(SeqProc, addresses)
    \/ \E addresses \in SeqPools : SetAddresses(SeqProc, addresses)
    \/ \E b \in BOOLEAN : SetHealthChecks(SeqProc, b)
    \/ \E path \in {"", "/health"} : SetHealthCheckPath(SeqProc, path)
    \/ Resume(SeqProc)
    \/ \E a \in Addr : EnvChange(a)
    \/ CheckOne(SeqProc)
    \/ \E n \in 0..(MaxSeqPool + 1) : CheckN(SeqProc, n)
    \/ CheckQuorum(SeqProc)
    \/ CheckAll(SeqProc)
    \/ Suspend(SeqProc)
    \/ checkConnectEnter(SeqProc)
    \/ checkConnectProbe(SeqProc)
    \/ checkConnectReturn(SeqProc)
    \/ GetHealthyAddresses(SeqProc)
    \/ GetHealthyAddressesEnter(SeqProc)
    \/ GetHealthyAddressesReturn(SeqProc)
    \/ GetRandomHealthyAddress(SeqProc)
    \/ Done(SeqProc)

SpecSeq == InitSeq /\ [][NextSeq]_vars

----
\* Properties of the health tracker.

Range(s) == {s[k] : k \in 1..Len(s)}

Distinct(s) == \A j, k \in 1..Len(s) : j # k => s[j] # s[k]

\* The addresses of the snapshot's indices in a pool, in the snapshot's order.
AddressesOf(snapshot, pool) == [k \in 1..Len(snapshot) |-> pool[snapshot[k] + 1]]

\* Goroutine p is returning nil from checkConnect, checkLock still held.
CheckSucceeded(p) == pc[p] = "unlock" /\ op[p] \in CheckOps /\ ret[p] = Nil

\* C1: when a check call returns success on an active client, the
\* snapshot holds at least n pairwise distinct indices, each smaller than the
\* pool length and each of an endpoint whose probe passed during the scan, and
\* GetHealthyAddresses called next returns the addresses of those indices in
\* the snapshot's order.
C1_AsStated ==
    \A p \in Procs : CheckSucceeded(p) /\ active =>
        /\ Len(healthyAddresses) >= minSuccessfulAddresses[p]
        /\ Distinct(healthyAddresses)
        /\ \A id \in Range(healthyAddresses) : id < Len(Addresses) /\ id \in Range(passed[p])
        /\ ResolveSnapshot(healthyAddresses, Addresses)
             = ListRet(AddressesOf(healthyAddresses, Addresses))

\* Goroutine p is returning from Suspend, checkLock still held.
SuspendReturns(p) == pc[p] = "unlock" /\ op[p] = "Suspend"

\* C4: when Suspend returns, the snapshot is empty and the "require all" probe
\* that Suspend ran has failed.
C4_SuspendFlushes ==
    \A p \in Procs : SuspendReturns(p) => healthyAddresses = <<>> /\ ret[p] # Nil

\* C10: every result GetHealthyAddresses returns is the resolved addresses of
\* the snapshot as the last completed checkConnect call left it (the empty
\* snapshot before any), never of a snapshot a scan is still building.
C10_ListingOfCompletedSnapshot ==
    [][\A p \in Procs : GetHealthyAddressesEnter(p) =>
            ret'[p] = ResolveSnapshot(completed, Addresses)]_vars

\* A listing returns a non-empty list while a check call waits for the lock.
C10_Witness ==
    \E p, q \in Procs :
        /\ pc[p] = "unlock" /\ op[p] = "GetHealthyAddresses"
        /\ ret[p].t = "list" /\ Len(ret[p].addrs) >= 1
        /\ pc[q] = "lock" /\ op[q] \in CheckOps

----
\* Properties of one goroutine's calls.

\* The goroutine has a result of GetRandomHealthyAddress.
Selected == pc[SeqProc] = "done" /\ op[SeqProc] = "GetRandomHealthyAddress"

\* The addresses of the snapshot's indices that are inside the pool.
SnapshotAddresses ==
    {Addresses[id + 1] : id \in {x \in Range(healthyAddresses) : x < Len(Addresses)}}

\* C2: with health checking enabled, GetRandomHealthyAddress returns an address
\* only of a pool index that is in the snapshot; it returns an error when the
\* snapshot is empty or holds no index inside the pool, and an error only when
\* the snapshot is empty or holds an index outside the pool.
C2_SelectsFromSnapshot ==
    Selected /\ HealthChecks =>
        /\ ret[SeqProc].t \in {"addr", "ErrNoHealthy"}
        /\ ret[SeqProc].t = "addr" => ret[SeqProc].addrs[1] \in SnapshotAddresses
        /\ SnapshotAddresses = {} => ret[SeqProc].t = "ErrNoHealthy"
        /\ ret[SeqProc].t = "ErrNoHealthy" =>
               \/ healthyAddresses = <<>>
               \/ \E id \in Range(healthyAddresses) : id >= Len(Addresses)

\* An address is selected from a snapshot that does not cover the pool.
C2_Witness ==
    /\ Selected /\ HealthChecks
    /\ ret[SeqProc].t = "addr"
    /\ Range(Addresses) \ SnapshotAddresses # {}

\* C3: with health checking disabled, GetRandomHealthyAddress returns an
\* address of the pool if the pool is not empty, and an error if it is.
C3_SelectsFromPool ==
    Selected /\ ~HealthChecks =>
        IF Len(Addresses) > 0
          THEN ret[SeqProc].t = "addr" /\ ret[SeqProc].addrs[1] \in Range(Addresses)
          ELSE ret[SeqProc].t = "ErrNoAddresses"

\* An address outside the snapshot is selected on a suspended client.
C3_Witness ==
    /\ Selected /\ ~HealthChecks /\ ~active
    /\ ret[SeqProc].t = "addr"
    /\ ret[SeqProc].addrs[1] \notin SnapshotAddresses

\* The goroutine is returning from CheckQuorum, checkLock still held.
QuorumReturns == pc[SeqProc] = "unlock" /\ op[SeqProc] = "CheckQuorum"

\* C7: CheckQuorum on a pool of k endpoints succeeds iff floor(k/2)+1 endpoints
\* pass their probe within the scan: 3 of a pool of 4, 3 of a pool of 5, and
\* never on the empty pool.
C7_QuorumIsStrictMajority ==
    QuorumReturns =>
        LET k == Len(Addresses)
        IN  /\ ret[SeqProc] = Nil <=> Len(passed[SeqProc]) >= (k \div 2) + 1
            /\ ret[SeqProc] = Nil /\ k \in {4, 5} => Len(passed[SeqProc]) = 3
            /\ k = 0 => ret[SeqProc] # Nil

\* CheckQuorum succeeds on a pool of five, one probe having failed.
C7_Witness ==
    /\ QuorumReturns /\ ret[SeqProc] = Nil
    /\ Len(Addresses) = 5
    /\ idx[SeqProc] = 3

\* C17: a check call that returns while the client is suspended returns an
\* error and leaves the snapshot empty.
C17_NoHealthyWhileSuspended ==
    \A p \in Procs :
        pc[p] = "unlock" /\ op[p] \in CheckOps \ {"Suspend"} /\ ~active =>
            ret[p] # Nil /\ healthyAddresses = <<>>

----
\* Properties of selections that run beside check calls.

\* What a selection gives that reads a given snapshot, health checking enabled.
SelectionFrom(snapshot) ==
    IF Len(snapshot) = 0
      THEN {Err("ErrNoHealthy")}
      ELSE {IF snapshot[r] < Len(Addresses)
              THEN AddrRet(Addresses[snapshot[r] + 1])
              ELSE Err("ErrNoHealthy") : r \in 1..Len(snapshot)}

\* C11: with health checking enabled, what a selection returns is a selection
\* from the snapshot as the last completed checkConnect call left it, never
\* from the snapshot that a scan in progress has reset or is still building.
C11_SelectionUnderLock ==
    [][\A p \in Procs : GetRandomHealthyAddress(p) /\ HealthChecks =>
            ret'[p] \in SelectionFrom(completed)]_vars

\* The goroutine is returning from a check call, checkLock still held.
CheckReturns == pc[SeqProc] = "unlock" /\ op[SeqProc] \in CheckOps

\* C12: a check call that fails with "not enough" on an active client leaves
\* the snapshot as it was before the call, and a check call on a suspended
\* client leaves it empty.
C12_NotEnoughKeepsSnapshot ==
    CheckReturns =>
        /\ ret[SeqProc] = Err("ErrNotEnough") => healthyAddresses = completed
        /\ ret[SeqProc] = Err("ErrNotActive") => healthyAddresses = <<>>

\* C16: with a health check path set, the probe of pool index i records i in
\* the snapshot iff the endpoint at index i answers (the endpoints of up being
\* the ones that answer the probe request with a matching body).
C16_ProbeGoesToTheAddress ==
    [][checkConnectProbe(SeqProc) /\ HealthCheckPath # "" =>
            (idx[SeqProc] \in Range(healthyAddresses')
                <=> rangeAddresses[SeqProc][idx[SeqProc] + 1] \in up)]_vars

\* C18: NewMultiClient(a_0, ..., a_k) gives a client whose pool is a_0, ..., a_k
\* in this order, which is active, has an empty snapshot and RetryLimit 1.
C18_NewMultiClient ==
    [][\A addresses \in SeqPools : New(SeqProc, addresses) =>
            /\ Len(Addresses') = Len(addresses)
            /\ \A i \in 1..Len(addresses) : Addresses'[i] = addresses[i]
            /\ active'
            /\ healthyAddresses' = <<>>
            /\ RetryLimit' = 1]_vars

\* A client of two different addresses has been made in place of a suspended one.
C18_Witness ==
    /\ pc[SeqProc] = "done" /\ op[SeqProc] = "NewMultiClient"
    /\ Len(Addresses) = 2 /\ Addresses[1] # Addresses[2]
    /\ active /\ healthyAddresses = <<>> /\ RetryLimit = 1

\* Strictly increasing.
Increasing(s) == \A j, k \in 1..Len(s) : j < k => s[j] < s[k]

\* C20: a check call that asked for n >= 1 endpoints and returns success leaves
\* a snapshot of exactly n indices: in increasing order, the indices of the
\* probes that passed, the last of them being the last index probed; and a
\* selection from a snapshot of one index, health checking enabled, has one
\* possible result.
C20_ScanStopsAtNthPass ==
    /\ CheckReturns /\ ret[SeqProc] = Nil /\ minSuccessfulAddresses[SeqProc] >= 1 =>
          /\ Len(healthyAddresses) = minSuccessfulAddresses[SeqProc]
          /\ Increasing(healthyAddresses)
          /\ healthyAddresses = passed[SeqProc]
          /\ healthyAddresses[Len(healthyAddresses)] = idx[SeqProc]
    /\ Selected /\ HealthChecks /\ Len(healthyAddresses) = 1 =>
          ret[SeqProc] = (IF healthyAddresses[1] < Len(Addresses)
                            THEN AddrRet(Addresses[healthyAddresses[1] + 1])
                            ELSE Err("ErrNoHealthy"))

\* A check for two endpoints succeeds on a pool of five: the first probe has
\* failed, and the fourth endpoint, not probed, accepts connections.
C20_Witness ==
    /\ CheckReturns /\ ret[SeqProc] = Nil /\ minSuccessfulAddresses[SeqProc] = 2
    /\ Len(Addresses) = 5
    /\ healthyAddresses = <<1, 2>>
    /\ Addresses[4] \in up

\* C22: GetHealthyAddresses returns a list, every index of the snapshot being
\* smaller than the length of the pool when it is resolved.
C22_ListingReturnsNormally ==
    pc[SeqProc] = "unlock" /\ op[SeqProc] = "GetHealthyAddresses" =>
        /\ \A id \in Range(healthyAddresses) : id < Len(Addresses)
        /\ ret[SeqProc].t = "list"

----
\* Properties of MultiClient.Request.

\* MultiClient.Request has a result for its caller.
RequestReturns == pc[RequestProc] = "request" /\ call.pc = "done"

SelectionErrors == {"ErrNoHealthy", "ErrNoAddresses"}
ExecutionErrors == {"ErrMethod", "ErrHook", "ErrRequest", "ErrTransport", "ErrDecode"}

\* C5: with RetryLimit L >= 1, a call of MultiClient.Request in which every
\* selection gave an address and every execution failed has made exactly L
\* selections and L executions, and returns the error of the L-th execution,
\* which is neither a selection error nor the retry-limit error.
C5_ReturnsLastExecutionError ==
    /\ RequestReturns
    /\ RetryLimit >= 1
    /\ call.result.t = "error"
    /\ trace.performs = trace.selections
    => /\ trace.selections = RetryLimit
       /\ trace.performs = RetryLimit
       /\ call.result.e \in ExecutionErrors
       /\ call.result.attempt = RetryLimit
       /\ call.result.e = call.lastErr.e

\* Three executions have failed, the last one differently from the ones before.
C5_Witness ==
    /\ RequestReturns
    /\ RetryLimit = 3
    /\ trace.performs = 3
    /\ call.result.t = "error"
    /\ call.result.e = "ErrDecode"
    /\ call.result.attempt = 3

\* C6: an attempt whose selection fails makes no execution and ends the call
\* with the selection error, whatever error an earlier attempt has left and
\* whatever is left of RetryLimit; an attempt whose selection gives an address
\* executes against that address; and a call that has ended makes no attempt.
C6_SelectionErrorEndsRequest ==
    [][/\ RequestAttempt(RequestProc) /\ ~LoopEnds(call.i) =>
            /\ (\A r \in RandomHealthyAddress : r.t # "addr") =>
                    trace'.performs = trace.performs
            /\ IF trace'.performs = trace.performs
                 THEN /\ call'.pc = "done"
                      /\ call'.result.t = "error"
                      /\ call'.result.e \in SelectionErrors
                      /\ Err(call'.result.e) \in RandomHealthyAddress
                      /\ call'.i = call.i
                 ELSE /\ trace'.performs = trace.performs + 1
                      /\ AddrRet(request'.BaseUrl) \in RandomHealthyAddress
       /\ call.pc = "done" /\ call' # call => call' = NoCall]_vars

\* A selection error is returned in the second of three attempts, the first
\* one having left an execution error.
C6_Witness ==
    /\ RequestReturns
    /\ call.result.e \in SelectionErrors
    /\ call.lastErr.e \in ExecutionErrors
    /\ call.i = 1
    /\ RetryLimit = 3

\* C8: the decoding of a response writes the success sink and no other if the
\* status is below 400, and the failure sink and no other if it is not,
\* whatever the body type of the request and the content type of the response.
C8_OneSinkByStatus ==
    [][PerformDecode(RequestProc) =>
            trace'.written = (IF call.response.status < 400 THEN {"success"} ELSE {"failure"})]_vars

\* A JSON response of status 400 to a request with an XML body went to the
\* failure sink.
C8_Witness ==
    /\ RequestReturns
    /\ call.response.status = 400
    /\ call.response.type = "application/json"
    /\ request.BodyType = BodyXml
    /\ trace.written = {"failure"}

\* C13: with RetryLimit above 1, a call with an unsupported method returns the
\* unsupported-method error after one selection and one execution, no hook
\* having run and nothing having been sent.
C13_UnsupportedMethodNotRetried ==
    /\ RequestReturns
    /\ request.Method \notin SupportedMethods
    /\ RetryLimit > 1
    /\ call.result.e \notin SelectionErrors
    => /\ call.result.t = "error"
       /\ call.result.e = "ErrMethod"
       /\ trace.selections = 1
       /\ trace.performs = 1
       /\ trace.log = <<>>

\* C14: a call whose last attempt received a response that could not be
\* decoded returns the decode error together with that response.
C14_DecodeErrorKeepsResponse ==
    /\ RequestReturns
    /\ call.result.e = "ErrDecode"
    => /\ call.result.t = "error"
       /\ call.response # NoResponse
       /\ call.result.status = call.response.status

\* The transports through which the attempt's request has been sent.
SentThrough == {trace.log[k][2] : k \in {j \in 1..Len(trace.log) : trace.log[j][1] = "send"}}

\* C15: a request is sent through the client given with SetClient if one was
\* given, and through the shared default client otherwise.
C15_SendsThroughConfiguredClient ==
    pc[RequestProc] = "request" =>
        \A transport \in SentThrough :
            transport = (IF request.Client = "nil" THEN "DefaultClient" ELSE request.Client)

\* C19: every attempt that executes, the first one and the later ones, runs
\* with the hook list [early hooks, per-call hooks, late hooks] and against
\* the address selected in this attempt.
C19_AttemptsStartFresh ==
    [][RequestAttempt(RequestProc) /\ trace'.performs = trace.performs + 1 =>
            /\ \E hooks \in {<<>>, <<"P">>} :
                  request'.PreRequestHooks
                    = (PreRequestHooks \o hooks) \o LatePreRequestHooks
            /\ AddrRet(request'.BaseUrl) \in RandomHealthyAddress]_vars

\* C21: an attempt is made after the first one only when the attempt before it
\* ended with an error of Perform; and a call whose attempt ended with the
\* decoding, without error, of a response of status 400 or above into the
\* failure sink returns this response and no error, on this attempt.
C21_ErrorStatusIsNotRetried ==
    pc[RequestProc] = "request" =>
        /\ trace.performs >= 2 =>
              /\ call.lastErr.e \in ExecutionErrors
              /\ call.lastErr.attempt \in {trace.performs - 1, trace.performs}
        /\ /\ call.pc \in {"attempt", "done"}
           /\ Len(trace.log) > 0
           /\ trace.log[Len(trace.log)][1] = "decode"
           /\ call.response.status >= 400
           => /\ call.pc = "done"
              /\ call.result.t = "response"
              /\ call.result.e = "nil"
              /\ call.result.status = call.response.status
              /\ call.result.attempt = trace.performs
              /\ trace.written = {"failure"}

\* The first of three attempts received status 500, and the call returns it.
C21_Witness ==
    /\ RequestReturns
    /\ RetryLimit = 3
    /\ trace.performs = 1
    /\ call.result.t = "response"
    /\ call.result.status = 500
    /\ call.result.e = "nil"

\* The names of the pre-request hooks that ran in the attempt, in order.
HooksRun == [k \in 1..Len(SelectSeq(trace.log, LAMBDA ev : ev[1] = "hook")) |->
                SelectSeq(trace.log, LAMBDA ev : ev[1] = "hook")[k][2]]

\* The positions of the events of one kind in the attempt's log.
Positions(kind) == {k \in 1..Len(trace.log) : trace.log[k][1] = kind}

IsPrefix(s, t) == Len(s) <= Len(t) /\ \A k \in 1..Len(s) : s[k] = t[k]

\* C9: in every attempt of a call with the early hook E, the per-call hook P
\* and the late hook L, the hooks that have run are E, P, L in this order, all
\* three before the request is materialized; every immediate hook runs after
\* the query and the headers are applied and before the request is sent; and
\* nothing runs after a hook's error.
C9_HookOrder ==
    /\ pc[RequestProc] = "request"
    /\ "P" \in Range(request.PreRequestHooks)
    => /\ IsPrefix(HooksRun, <<"E", "P", "L">>)
       /\ Positions("request") # {} => HooksRun = <<"E", "P", "L">>
       /\ \A h \in Positions("hook"), m \in Positions("request") : h < m
       /\ \A i \in Positions("immediate") :
             /\ \A a \in Positions("query") \cup Positions("headers") : a < i
             /\ Positions("headers") # {}
             /\ \A d \in Positions("send") : i < d
       /\ \A e \in Positions("error") : e = Len(trace.log)

====
